---------------------------- MODULE Spec2Model ----------------------------
(***************************************************************************)
(* Model of widget.py: the backward-induction engine for a "roll dice,     *)
(* keep a subset, reroll the rest" game.                                   *)
(*                                                                         *)
(* Rolls are tuples (sequences) of face values.  Python dicts are          *)
(* functions whose DOMAIN is the key set.  Values are exact rationals      *)
(* <<numerator, denominator>> in lowest terms, so that "/" is division     *)
(* and "==" is equality of numbers: the arithmetic Python performs on      *)
(* Fraction values, and on floats as long as no operation rounds.          *)
(***************************************************************************)
EXTENDS Integers, Sequences, FiniteSets, TLC

VARIABLES
    num_dice, num_faces, keep_all_optimal,      \* configuration shared by all parts
    num_rolls, use_dynamic_programming,         \* Widget configuration
    arg_roll_values,                            \* the roll_values argument of __init__
    roll_values, optimal_moves,                 \* Widget.roll_values / Widget.optimal_moves
    idx, pc, error,                             \* loop index, position and raised error
    values_given_kept, dp_out, bf_out,          \* one resolver call: argument and both results
    next_roll_values, cond_out,                 \* one _compute_values_given_kept call
    roll, yielded, gen_pc                       \* one iter_possible_rolls generator

vars == <<num_dice, num_faces, keep_all_optimal, num_rolls, use_dynamic_programming,
          arg_roll_values, roll_values, optimal_moves, idx, pc, error,
          values_given_kept, dp_out, bf_out, next_roll_values, cond_out,
          roll, yielded, gen_pc>>

-----------------------------------------------------------------------------
(* Bounds *)

MaxDice == 2
MaxFaces == 3
MaxRolls == 3
MaxVal == 1
MaxDup == 1
MaxLattice == 6
MaxTerminal == 6
MaxEnumDice == 4
MaxEnumFaces == 4

-----------------------------------------------------------------------------
(* Exact arithmetic on values *)

RECURSIVE GCD(_, _)
GCD(a, b) == IF b = 0 THEN a ELSE GCD(b, a % b)

Abs(n) == IF n < 0 THEN -n ELSE n

Rat(n, d) ==
    LET g == GCD(Abs(n), d)
    IN  <<n \div g, d \div g>>

FromInt(n) == <<n, 1>>

RatAdd(x, y) == Rat(x[1] * y[2] + y[1] * x[2], x[2] * y[2])

RatDivInt(x, k) == Rat(x[1], x[2] * k)

RatGt(x, y) == x[1] * y[2] > y[1] * x[2]

RatGe(x, y) == x[1] * y[2] >= y[1] * x[2]

-----------------------------------------------------------------------------
(* tuple(sorted(...)) *)

RECURSIVE InsertSorted(_, _)
InsertSorted(s, x) ==
    IF s = <<>> THEN <<x>>
    ELSE IF x <= Head(s) THEN <<x>> \o s
    ELSE <<Head(s)>> \o InsertSorted(Tail(s), x)

RECURSIVE Sorted(_)
Sorted(s) == IF s = <<>> THEN <<>> ELSE InsertSorted(Sorted(Tail(s)), Head(s))

-----------------------------------------------------------------------------
(* iter_possible_rolls *)

AllFaces(r, faces) == \A i \in 1..Len(r) : r[i] = faces

\* Faulty variant of NextRoll: the positions to the right are not reset.
NextRollNoReset(r, faces) ==
    LET idx_to_increment == CHOOSE i \in 1..Len(r) :
                                /\ r[i] # faces
                                /\ \A j \in (i+1)..Len(r) : r[j] = faces
        face_value == r[idx_to_increment]
    IN  [r EXCEPT ![idx_to_increment] = face_value + 1]

\* One pass of the while loop body: the roll after the increment and reset.
NextRoll(r, faces) ==
    LET idx_to_increment == CHOOSE i \in 1..Len(r) :
                                /\ r[i] # faces
                                /\ \A j \in (i+1)..Len(r) : r[j] = faces
        face_value == r[idx_to_increment]
    IN  [i \in 1..Len(r) |->
            IF i < idx_to_increment THEN r[i] ELSE face_value + 1]

RECURSIVE IterFrom(_, _)
IterFrom(r, faces) ==
    IF AllFaces(r, faces) THEN <<r>>
    ELSE <<r>> \o IterFrom(NextRoll(r, faces), faces)

\* The whole sequence the generator yields.
IterPossibleRolls(n, faces) ==
    IF n = 0 THEN << <<>> >>
    ELSE IterFrom([i \in 1..n |-> 1], faces)

SeqToSet(s) == {s[i] : i \in 1..Len(s)}

\* Counter(subroll) <= Counter(roll)
Count(r, v) == Cardinality({i \in 1..Len(r) : r[i] = v})

IsSubroll(subroll, r) ==
    \A v \in SeqToSet(subroll) : Count(subroll, v) <= Count(r, v)

-----------------------------------------------------------------------------
(* The generator, one yield per step *)

GenIdle == roll = <<>> /\ yielded = <<>> /\ gen_pc = "idle"

GenStart ==
    /\ gen_pc = "start"
    /\ IF num_dice = 0
       THEN /\ roll' = <<>>
            /\ yielded' = << <<>> >>
            /\ gen_pc' = "done"
       ELSE /\ roll' = [i \in 1..num_dice |-> 1]
            /\ yielded' = <<roll'>>
            /\ gen_pc' = "loop"
    /\ UNCHANGED <<num_dice, num_faces, keep_all_optimal, num_rolls,
                   use_dynamic_programming, arg_roll_values, roll_values,
                   optimal_moves, idx, pc, error, values_given_kept, dp_out,
                   bf_out, next_roll_values, cond_out>>

GenStep ==
    /\ gen_pc = "loop"
    /\ ~AllFaces(roll, num_faces)
    /\ roll' = NextRoll(roll, num_faces)
    /\ yielded' = Append(yielded, roll')
    /\ UNCHANGED <<gen_pc, num_dice, num_faces, keep_all_optimal, num_rolls,
                   use_dynamic_programming, arg_roll_values, roll_values,
                   optimal_moves, idx, pc, error, values_given_kept, dp_out,
                   bf_out, next_roll_values, cond_out>>

GenStop ==
    /\ gen_pc = "loop"
    /\ AllFaces(roll, num_faces)
    /\ gen_pc' = "done"
    /\ UNCHANGED <<roll, yielded, num_dice, num_faces, keep_all_optimal, num_rolls,
                   use_dynamic_programming, arg_roll_values, roll_values,
                   optimal_moves, idx, pc, error, values_given_kept, dp_out,
                   bf_out, next_roll_values, cond_out>>

-----------------------------------------------------------------------------
(* Widget._compute_values_given_kept *)

\* sum(values_given_kept[tuple(sorted(kept + (i,)))] for i in range(1, num_faces + 1))
RECURSIVE SumOverFaces(_, _, _)
SumOverFaces(vgk, kept, i) ==
    IF i > num_faces THEN FromInt(0)
    ELSE RatAdd(vgk[Sorted(kept \o <<i>>)], SumOverFaces(vgk, kept, i + 1))

\* Faulty variant of MeanOverFaces: the sum is not divided.
MeanNoDivide(vgk, kept) == SumOverFaces(vgk, kept, 1)

\* The value assigned to values_given_kept[kept].
MeanOverFaces(vgk, kept) == RatDivInt(SumOverFaces(vgk, kept, 1), num_faces)

RECURSIVE CondKeptLoop(_, _, _)
CondKeptLoop(vgk, kepts, i) ==
    IF i > Len(kepts) THEN vgk
    ELSE CondKeptLoop((kepts[i] :> MeanOverFaces(vgk, kepts[i])) @@ vgk, kepts, i + 1)

RECURSIVE CondLayerLoop(_, _)
CondLayerLoop(vgk, num_kept) ==
    IF num_kept < 0 THEN vgk
    ELSE CondLayerLoop(CondKeptLoop(vgk, IterPossibleRolls(num_kept, num_faces), 1),
                       num_kept - 1)

ComputeValuesGivenKept(next) == CondLayerLoop(next, num_dice - 1)

-----------------------------------------------------------------------------
(* Widget._compute_from_cond_dp                                            *)
(*                                                                         *)
(* optimal_moves holds references to Python set objects.  Every set object *)
(* is created by a "{kept}" literal and is named by that kept roll: st.ref *)
(* maps a roll to the object its entry refers to, st.heap maps an object   *)
(* to its current contents.  "optimal_moves[kept] = moves" copies the      *)
(* reference; ".update(moves)" changes the contents of the object.         *)

\* Faulty variant of DpRelax: the comparison is reversed.
DpRelaxMin(st, value, moves, prev_kept, die) ==
    LET kept == Sorted(prev_kept \o <<die>>)
    IN  IF RatGt(st.rv[kept], value)
        THEN [st EXCEPT !.rv[kept] = value, !.ref[kept] = moves]
        ELSE IF keep_all_optimal /\ value = st.rv[kept]
        THEN [st EXCEPT !.heap[st.ref[kept]] = @ \cup st.heap[moves]]
        ELSE st

\* Faulty variant of DpRelax: an improvement does not take over the moves.
DpRelaxKeepMoves(st, value, moves, prev_kept, die) ==
    LET kept == Sorted(prev_kept \o <<die>>)
    IN  IF RatGt(value, st.rv[kept])
        THEN [st EXCEPT !.rv[kept] = value]
        ELSE IF keep_all_optimal /\ value = st.rv[kept]
        THEN [st EXCEPT !.heap[st.ref[kept]] = @ \cup st.heap[moves]]
        ELSE st

\* Lines 87-92: relax the successor of prev_kept by one die.
DpRelax(st, value, moves, prev_kept, die) ==
    LET kept == Sorted(prev_kept \o <<die>>)
    IN  IF RatGt(value, st.rv[kept])
        THEN [st EXCEPT !.rv[kept] = value, !.ref[kept] = moves]
        ELSE IF keep_all_optimal /\ value = st.rv[kept]
        THEN [st EXCEPT !.heap[st.ref[kept]] = @ \cup st.heap[moves]]
        ELSE st

RECURSIVE DpDieLoop(_, _, _, _, _)
DpDieLoop(st, value, moves, prev_kept, die) ==
    IF die > num_faces THEN st
    ELSE DpDieLoop(DpRelax(st, value, moves, prev_kept, die),
                   value, moves, prev_kept, die + 1)

RECURSIVE DpPrevLoop(_, _, _)
DpPrevLoop(st, prevs, i) ==
    IF i > Len(prevs) THEN st
    ELSE DpPrevLoop(DpDieLoop(st, st.rv[prevs[i]], st.ref[prevs[i]], prevs[i], 1),
                    prevs, i + 1)

RECURSIVE DpInitLoop(_, _, _, _)
DpInitLoop(st, vgk, kepts, i) ==
    IF i > Len(kepts) THEN st
    ELSE DpInitLoop([rv   |-> (kepts[i] :> vgk[kepts[i]]) @@ st.rv,
                     ref  |-> (kepts[i] :> kepts[i]) @@ st.ref,
                     heap |-> (kepts[i] :> {kepts[i]}) @@ st.heap],
                    vgk, kepts, i + 1)

RECURSIVE DpLayerLoop(_, _, _)
DpLayerLoop(st, vgk, num_kept) ==
    IF num_kept > num_dice THEN st
    ELSE DpLayerLoop(
            DpPrevLoop(DpInitLoop(st, vgk, IterPossibleRolls(num_kept, num_faces), 1),
                       IterPossibleRolls(num_kept - 1, num_faces), 1),
            vgk, num_kept + 1)

ComputeFromCondDp(vgk) ==
    LET st0 == [rv   |-> (<<>> :> vgk[<<>>]),
                ref  |-> (<<>> :> <<>>),
                heap |-> (<<>> :> {<<>>})]
        st  == DpLayerLoop(st0, vgk, 1)
        full == {r \in DOMAIN st.rv : Len(r) = num_dice}
    IN  [rv |-> [r \in full |-> st.rv[r]],
         om |-> [r \in full |-> st.heap[st.ref[r]]]]

-----------------------------------------------------------------------------
(* Widget._compute_from_cond: optimal_moves holds lists *)

\* Faulty variant of BfVisit: the comparison is reversed.
BfVisitLt(st, value, kept, other_dice) ==
    LET r == Sorted(kept \o other_dice)
    IN  IF RatGt(st.rv[r], value)
        THEN [st EXCEPT !.rv[r] = value, !.om[r] = <<kept>>]
        ELSE IF keep_all_optimal /\ value = st.rv[r]
        THEN [st EXCEPT !.om[r] = Append(@, kept)]
        ELSE st

\* Faulty variant of BfVisit: a tie replaces the list.
BfVisitGe(st, value, kept, other_dice) ==
    LET r == Sorted(kept \o other_dice)
    IN  IF RatGe(value, st.rv[r])
        THEN [st EXCEPT !.rv[r] = value, !.om[r] = <<kept>>]
        ELSE st

\* Lines 109-114.
BfVisit(st, value, kept, other_dice) ==
    LET r == Sorted(kept \o other_dice)
    IN  IF RatGt(value, st.rv[r])
        THEN [st EXCEPT !.rv[r] = value, !.om[r] = <<kept>>]
        ELSE IF keep_all_optimal /\ value = st.rv[r]
        THEN [st EXCEPT !.om[r] = Append(@, kept)]
        ELSE st

RECURSIVE BfOtherLoop(_, _, _, _, _)
BfOtherLoop(st, value, kept, others, j) ==
    IF j > Len(others) THEN st
    ELSE BfOtherLoop(BfVisit(st, value, kept, others[j]), value, kept, others, j + 1)

RECURSIVE BfKeptLoop(_, _, _, _)
BfKeptLoop(st, vgk, kepts, i) ==
    IF i > Len(kepts) THEN st
    ELSE BfKeptLoop(
            BfOtherLoop(st, vgk[kepts[i]], kepts[i],
                        IterPossibleRolls(num_dice - Len(kepts[i]), num_faces), 1),
            vgk, kepts, i + 1)

RECURSIVE BfLayerLoop(_, _, _)
BfLayerLoop(st, vgk, num_kept) ==
    IF num_kept < 0 THEN st
    ELSE BfLayerLoop(BfKeptLoop(st, vgk, IterPossibleRolls(num_kept, num_faces), 1),
                     vgk, num_kept - 1)

ComputeFromCond(vgk) ==
    LET full == SeqToSet(IterPossibleRolls(num_dice, num_faces))
        st0  == [rv |-> [r \in full |-> vgk[r]],
                 om |-> [r \in full |-> <<r>>]]
    IN  BfLayerLoop(st0, vgk, num_dice - 1)

ComputeFromConditionalValues(vgk) ==
    IF use_dynamic_programming THEN ComputeFromCondDp(vgk) ELSE ComputeFromCond(vgk)

ComputeStrategyOneRoll(next) ==
    ComputeFromConditionalValues(ComputeValuesGivenKept(next))

-----------------------------------------------------------------------------
(* Widget._parse_roll_values: raw is the argument dict as the sequence of  *)
(* its items in iteration order.                                           *)

\* Faulty variant of ParseItem: a conflicting value overwrites silently.
ParseItemNoCheck(parsed, item) ==
    [error |-> "none", parsed |-> (Sorted(item[1]) :> item[2]) @@ parsed]

\* Lines 34-38: one iteration of the loop over roll_values.items().
ParseItem(parsed, item) ==
    LET r == Sorted(item[1])
        value == item[2]
    IN  IF r \in DOMAIN parsed /\ parsed[r] # value
        THEN [error |-> "Inconsistent", parsed |-> parsed]
        ELSE [error |-> "none", parsed |-> (r :> value) @@ parsed]

RECURSIVE ParseLoop(_, _, _)
ParseLoop(parsed, raw, i) ==
    IF i > Len(raw) THEN [error |-> "none", parsed |-> parsed]
    ELSE LET step == ParseItem(parsed, raw[i])
         IN  IF step.error # "none" THEN step
             ELSE ParseLoop(step.parsed, raw, i + 1)

ParseRollValues(raw) ==
    LET res == ParseLoop(<<>>, raw, 1)
    IN  IF res.error # "none" THEN res
        ELSE IF \E r \in SeqToSet(IterPossibleRolls(num_dice, num_faces)) :
                    r \notin DOMAIN res.parsed
        THEN [error |-> "Missing", parsed |-> res.parsed]
        ELSE res

-----------------------------------------------------------------------------
(* Widget.__init__ and Widget._compute_strategy_and_values *)

EmptyTables(n) == [i \in 1..n |-> <<>>]

WidgetIdle ==
    /\ num_rolls = 0 /\ use_dynamic_programming = FALSE /\ arg_roll_values = <<>>
    /\ roll_values = <<>> /\ optimal_moves = <<>> /\ idx = 0 /\ pc = "idle"
    /\ error = "none"

\* Lines 25-27.
Construct ==
    /\ pc = "init"
    /\ LET res == ParseRollValues(arg_roll_values)
       IN  IF res.error # "none"
           THEN /\ roll_values' = EmptyTables(num_rolls - 1)
                /\ error' = res.error
                /\ pc' = "error"
                /\ UNCHANGED <<optimal_moves, idx>>
           ELSE /\ roll_values' = Append(EmptyTables(num_rolls - 1), res.parsed)
                /\ optimal_moves' = EmptyTables(num_rolls - 1)
                /\ idx' = num_rolls - 2
                /\ pc' = "loop"
                /\ UNCHANGED error
    /\ UNCHANGED <<num_dice, num_faces, keep_all_optimal, num_rolls,
                   use_dynamic_programming, arg_roll_values,
                   values_given_kept, dp_out, bf_out, next_roll_values, cond_out,
                   roll, yielded, gen_pc>>

\* Faulty variant of ComputeRound: every round is computed from the terminal table.
ComputeRoundFromLast ==
    /\ pc = "loop"
    /\ idx >= 0
    /\ LET out == ComputeStrategyOneRoll(roll_values[num_rolls])
       IN  /\ roll_values' = [roll_values EXCEPT ![idx + 1] = out.rv]
           /\ optimal_moves' = [optimal_moves EXCEPT ![idx + 1] = out.om]
    /\ idx' = idx - 1
    /\ UNCHANGED <<pc, error, num_dice, num_faces, keep_all_optimal, num_rolls,
                   use_dynamic_programming, arg_roll_values,
                   values_given_kept, dp_out, bf_out, next_roll_values, cond_out,
                   roll, yielded, gen_pc>>

\* Lines 47-48: one iteration of the loop.  Python index i is position i + 1 here.
ComputeRound ==
    /\ pc = "loop"
    /\ idx >= 0
    /\ LET out == ComputeStrategyOneRoll(roll_values[idx + 2])
       IN  /\ roll_values' = [roll_values EXCEPT ![idx + 1] = out.rv]
           /\ optimal_moves' = [optimal_moves EXCEPT ![idx + 1] = out.om]
    /\ idx' = idx - 1
    /\ UNCHANGED <<pc, error, num_dice, num_faces, keep_all_optimal, num_rolls,
                   use_dynamic_programming, arg_roll_values,
                   values_given_kept, dp_out, bf_out, next_roll_values, cond_out,
                   roll, yielded, gen_pc>>

Finish ==
    /\ pc = "loop"
    /\ idx < 0
    /\ pc' = "done"
    /\ UNCHANGED <<roll_values, optimal_moves, idx, error,
                   num_dice, num_faces, keep_all_optimal, num_rolls,
                   use_dynamic_programming, arg_roll_values,
                   values_given_kept, dp_out, bf_out, next_roll_values, cond_out,
                   roll, yielded, gen_pc>>

-----------------------------------------------------------------------------
(* Input spaces *)

NonDecreasing(t) == \A i \in 1..(Len(t) - 1) : t[i] <= t[i + 1]

Tuples(n, faces) == [1..n -> 1..faces]

CanonicalRolls(n, faces) == {t \in Tuples(n, faces) : NonDecreasing(t)}

Lattice(n, faces) == UNION {CanonicalRolls(k, faces) : k \in 0..n}

Vals == {FromInt(v) : v \in 0..MaxVal}

RECURSIVE SetToSeq(_)
SetToSeq(S) ==
    IF S = {} THEN <<>>
    ELSE LET x == CHOOSE y \in S : TRUE
         IN  <<x>> \o SetToSeq(S \ {x})

Items(f) == LET keys == SetToSeq(DOMAIN f) IN [i \in 1..Len(keys) |-> <<keys[i], f[keys[i]]>>]

Configs == {c \in (0..MaxDice) \X (1..MaxFaces) :
                Cardinality(Lattice(c[1], c[2])) <= MaxLattice}

CondConfigs == {c \in (0..MaxDice) \X (1..MaxFaces) :
                    Cardinality(CanonicalRolls(c[1], c[2])) <= MaxTerminal}

ResolveIdle ==
    /\ values_given_kept = <<>>
    /\ dp_out = [done |-> FALSE, rv |-> <<>>, om |-> <<>>]
    /\ bf_out = [done |-> FALSE, rv |-> <<>>, om |-> <<>>]

CondIdle ==
    /\ next_roll_values = <<>>
    /\ cond_out = [done |-> FALSE, vgk |-> <<>>]

-----------------------------------------------------------------------------
(* The constructor: Widget(roll_values, num_dice, num_faces, num_rolls, ...) *)

Init ==
    /\ \E c \in Configs :
          /\ num_dice = c[1]
          /\ num_faces = c[2]
          /\ \E present \in SUBSET CanonicalRolls(c[1], c[2]) :
             \E dups \in {D \in SUBSET (Tuples(c[1], c[2]) \ CanonicalRolls(c[1], c[2])) :
                              Cardinality(D) <= MaxDup} :
             \E cv \in [present -> Vals] :
             \E dv \in [dups -> Vals] :
             \E dups_first \in BOOLEAN :
                 arg_roll_values = IF dups_first THEN Items(dv) \o Items(cv)
                                                 ELSE Items(cv) \o Items(dv)
    /\ keep_all_optimal \in BOOLEAN
    /\ use_dynamic_programming \in BOOLEAN
    /\ num_rolls \in 1..MaxRolls
    /\ roll_values = <<>>
    /\ optimal_moves = <<>>
    /\ idx = num_rolls
    /\ pc = "init"
    /\ error = "none"
    /\ ResolveIdle /\ CondIdle /\ GenIdle

Next == Construct \/ ComputeRound \/ Finish

Spec == Init /\ [][Next]_vars

-----------------------------------------------------------------------------
(* One call of each resolver on an arbitrary conditional value table *)

ResolveInit ==
    /\ \E c \in Configs :
          /\ num_dice = c[1]
          /\ num_faces = c[2]
          /\ values_given_kept \in [Lattice(c[1], c[2]) -> Vals]
    /\ keep_all_optimal \in BOOLEAN
    /\ dp_out = [done |-> FALSE, rv |-> <<>>, om |-> <<>>]
    /\ bf_out = [done |-> FALSE, rv |-> <<>>, om |-> <<>>]
    /\ WidgetIdle /\ CondIdle /\ GenIdle

RunDp ==
    /\ values_given_kept # <<>>
    /\ ~dp_out.done
    /\ LET out == ComputeFromCondDp(values_given_kept)
       IN  dp_out' = [done |-> TRUE, rv |-> out.rv, om |-> out.om]
    /\ UNCHANGED <<num_dice, num_faces, keep_all_optimal, num_rolls,
                   use_dynamic_programming, arg_roll_values, roll_values,
                   optimal_moves, idx, pc, error, values_given_kept, bf_out,
                   next_roll_values, cond_out, roll, yielded, gen_pc>>

RunBf ==
    /\ values_given_kept # <<>>
    /\ ~bf_out.done
    /\ LET out == ComputeFromCond(values_given_kept)
       IN  bf_out' = [done |-> TRUE, rv |-> out.rv, om |-> out.om]
    /\ UNCHANGED <<num_dice, num_faces, keep_all_optimal, num_rolls,
                   use_dynamic_programming, arg_roll_values, roll_values,
                   optimal_moves, idx, pc, error, values_given_kept, dp_out,
                   next_roll_values, cond_out, roll, yielded, gen_pc>>

ResolveNext == RunDp \/ RunBf

ResolveSpec == ResolveInit /\ [][ResolveNext]_vars

-----------------------------------------------------------------------------
(* One call of _compute_values_given_kept on an arbitrary next-round table *)

CondInit ==
    /\ \E c \in CondConfigs :
          /\ num_dice = c[1]
          /\ num_faces = c[2]
          /\ next_roll_values \in [CanonicalRolls(c[1], c[2]) -> Vals]
    /\ keep_all_optimal = FALSE
    /\ cond_out = [done |-> FALSE, vgk |-> <<>>]
    /\ WidgetIdle /\ ResolveIdle /\ GenIdle

RunCond ==
    /\ next_roll_values # <<>>
    /\ ~cond_out.done
    /\ cond_out' = [done |-> TRUE, vgk |-> ComputeValuesGivenKept(next_roll_values)]
    /\ UNCHANGED <<num_dice, num_faces, keep_all_optimal, num_rolls,
                   use_dynamic_programming, arg_roll_values, roll_values,
                   optimal_moves, idx, pc, error, values_given_kept, dp_out, bf_out,
                   next_roll_values, roll, yielded, gen_pc>>

CondNext == RunCond

CondSpec == CondInit /\ [][CondNext]_vars

-----------------------------------------------------------------------------
(* One traversal of iter_possible_rolls(num_dice, num_faces) *)

EnumInit ==
    /\ num_dice \in 0..MaxEnumDice
    /\ num_faces \in 1..MaxEnumFaces
    /\ keep_all_optimal = FALSE
    /\ roll = <<>>
    /\ yielded = <<>>
    /\ gen_pc = "start"
    /\ WidgetIdle /\ ResolveIdle /\ CondIdle

EnumNext == GenStart \/ GenStep \/ GenStop

EnumSpec == EnumInit /\ [][EnumNext]_vars /\ WF_vars(EnumNext)

-----------------------------------------------------------------------------
(* Reference notions the properties are stated with *)

\* The elements of r at the positions in I, in order.
RECURSIVE PickAt(_, _, _)
PickAt(r, I, i) ==
    IF i > Len(r) THEN <<>>
    ELSE IF i \in I THEN <<r[i]>> \o PickAt(r, I, i + 1)
    ELSE PickAt(r, I, i + 1)

SubMultisets(r) == {PickAt(r, I, 1) : I \in SUBSET (1..Len(r))}

MaxOver(vgk, S) ==
    CHOOSE v \in {vgk[k] : k \in S} : \A k \in S : RatGe(v, vgk[k])

Maximizers(vgk, r) ==
    {k \in SubMultisets(r) : vgk[k] = MaxOver(vgk, SubMultisets(r))}

FullRolls == CanonicalRolls(num_dice, num_faces)

RECURSIVE SumSet(_, _, _)
SumSet(next, kept, T) ==
    IF T = {} THEN FromInt(0)
    ELSE LET t == CHOOSE u \in T : TRUE
         IN  RatAdd(next[Sorted(kept \o t)], SumSet(next, kept, T \ {t}))

RECURSIVE Power(_, _)
Power(b, e) == IF e = 0 THEN 1 ELSE b * Power(b, e - 1)

JointExpectation(next, kept) ==
    LET n == num_dice - Len(kept)
        total == SumSet(next, kept, Tuples(n, num_faces))
    IN  Rat(total[1], total[2] * Power(num_faces, n))

RECURSIVE Binom(_, _)
Binom(n, k) ==
    IF k = 0 THEN 1
    ELSE IF n = 0 THEN 0
    ELSE Binom(n - 1, k - 1) + Binom(n - 1, k)

LexLess(a, b) ==
    \E i \in 1..Len(a) : a[i] < b[i] /\ \A j \in 1..(i - 1) : a[j] = b[j]

RECURSIVE RoundZeroValues(_, _)
RoundZeroValues(terminal, rounds) ==
    IF rounds <= 1 THEN terminal
    ELSE ComputeStrategyOneRoll(RoundZeroValues(terminal, rounds - 1)).rv

-----------------------------------------------------------------------------
(* Properties *)

\* C1: the lattice-DP resolver returns, for every canonical roll r of length
\* num_dice, the maximum of the conditional values over all sub-multisets of r.
C1_DpValueIsMaxOverSubMultisets ==
    dp_out.done =>
        /\ FullRolls \subseteq DOMAIN dp_out.rv
        /\ \A r \in FullRolls :
              dp_out.rv[r] = MaxOver(values_given_kept, SubMultisets(r))

C1_Witness ==
    /\ dp_out.done
    /\ num_dice = 2
    /\ \E r \in FullRolls : \E k \in SubMultisets(r) :
          /\ Len(k) = 1
          /\ RatGt(values_given_kept[k], values_given_kept[r])
          /\ RatGt(values_given_kept[k], values_given_kept[<<>>])
          /\ dp_out.rv[r] = values_given_kept[k]

\* C2: on the same conditional value table the brute-force and the lattice-DP
\* resolver return value tables with the same keys and equal values, for either
\* setting of keep_all_optimal.
C2_ResolversAgreeOnValues ==
    (dp_out.done /\ bf_out.done) =>
        /\ DOMAIN dp_out.rv = DOMAIN bf_out.rv
        /\ \A r \in DOMAIN dp_out.rv : dp_out.rv[r] = bf_out.rv[r]

C2_Witness ==
    /\ dp_out.done /\ bf_out.done
    /\ keep_all_optimal
    /\ num_dice = 2 /\ num_faces = 2
    /\ \E r \in FullRolls : bf_out.rv[r] # values_given_kept[r]
    /\ \E r \in FullRolls : bf_out.rv[r] = values_given_kept[r]

\* C3: without keep_all_optimal each resolver reports, for every roll r, exactly
\* one kept subset, a sub-multiset of r whose conditional value is the round value.
C3_SingleRepresentativeMaximizer ==
    ~keep_all_optimal =>
        /\ dp_out.done =>
              \A r \in FullRolls :
                  /\ Cardinality(dp_out.om[r]) = 1
                  /\ \A k \in dp_out.om[r] :
                        /\ k \in SubMultisets(r)
                        /\ values_given_kept[k] = dp_out.rv[r]
        /\ bf_out.done =>
              \A r \in FullRolls :
                  /\ Len(bf_out.om[r]) = 1
                  /\ bf_out.om[r][1] \in SubMultisets(r)
                  /\ values_given_kept[bf_out.om[r][1]] = bf_out.rv[r]

C3_Witness ==
    /\ ~keep_all_optimal
    /\ dp_out.done /\ bf_out.done
    /\ \E r \in FullRolls :
          /\ dp_out.om[r] # {r}
          /\ dp_out.om[r] # {bf_out.om[r][1]}

\* C4: with keep_all_optimal the lattice-DP resolver reports, for every roll r,
\* exactly the set of sub-multisets of r that attain the maximum.
C4_DpReportsExactlyTheMaximizers ==
    (keep_all_optimal /\ dp_out.done) =>
        \A r \in FullRolls : dp_out.om[r] = Maximizers(values_given_kept, r)

\* C5: the conditional value of every kept roll is the joint expectation of the
\* next round's value over all ordered outcomes of the rerolled dice; for a
\* full roll it is the next round's value itself.
C5_ConditionalValueIsJointExpectation ==
    cond_out.done =>
        /\ DOMAIN cond_out.vgk = Lattice(num_dice, num_faces)
        /\ \A kept \in Lattice(num_dice, num_faces) :
              cond_out.vgk[kept] = JointExpectation(next_roll_values, kept)
        /\ \A r \in FullRolls : cond_out.vgk[r] = next_roll_values[r]

C5_Witness ==
    /\ cond_out.done
    /\ num_dice = 2 /\ num_faces >= 2
    /\ cond_out.vgk[<<>>][2] = num_faces * num_faces

\* C6: construction fails with the inconsistent-value error when two keys that
\* sort to the same roll carry different values, otherwise with the missing-roll
\* error when a canonical roll is absent, and then produces no table; otherwise
\* the terminal table maps each sorted key to its value.
C6_Validation ==
    LET n == Len(arg_roll_values)
        key(i) == Sorted(arg_roll_values[i][1])
        val(i) == arg_roll_values[i][2]
        conflict == \E i, j \in 1..n : key(i) = key(j) /\ val(i) # val(j)
        missing == \E r \in FullRolls : \A i \in 1..n : key(i) # r
    IN  pc \in {"loop", "done", "error"} =>
           /\ conflict => (pc = "error" /\ error = "Inconsistent")
           /\ (~conflict /\ missing) => (pc = "error" /\ error = "Missing")
           /\ pc = "error" =>
                 /\ \A i \in 1..Len(roll_values) : roll_values[i] = <<>>
                 /\ optimal_moves = <<>>
           /\ (~conflict /\ ~missing) =>
                 /\ pc # "error" /\ error = "none"
                 /\ DOMAIN roll_values[num_rolls] = {key(i) : i \in 1..n}
                 /\ \A i \in 1..n : roll_values[num_rolls][key(i)] = val(i)

C6_Witness ==
    /\ pc = "error" /\ error = "Inconsistent"
    /\ num_rolls = 3
    /\ \E r \in FullRolls :
          \A i \in 1..Len(arg_roll_values) : Sorted(arg_roll_values[i][1]) # r

\* C7: the enumerator terminates, having yielded every non-decreasing tuple of
\* length num_dice over 1..num_faces exactly once in strictly ascending
\* lexicographic order, C(num_faces + num_dice - 1, num_dice) tuples in all.
C7_EnumeratorYieldsAllRollsInOrder ==
    <>( /\ gen_pc = "done"
        /\ Len(yielded) = Binom(num_faces + num_dice - 1, num_dice)
        /\ SeqToSet(yielded) = CanonicalRolls(num_dice, num_faces)
        /\ \A i \in 1..(Len(yielded) - 1) : LexLess(yielded[i], yielded[i + 1])
        /\ (num_dice = 0 => yielded = << <<>> >>) )

C7_Witness ==
    /\ gen_pc = "done"
    /\ num_dice = 3 /\ num_faces = 3
    /\ Len(yielded) = 10

\* C8: with the terminal table fixed, the round-0 value of every roll with
\* num_rolls rounds is at least its round-0 value with num_rolls - 1 rounds.
C8_MonotoneInRounds ==
    (pc = "done" /\ num_rolls >= 2) =>
        \A r \in FullRolls :
            RatGe(roll_values[1][r],
                  RoundZeroValues(roll_values[num_rolls], num_rolls - 1)[r])

C8_Witness ==
    /\ pc = "done" /\ num_rolls = 3
    /\ \E r \in FullRolls :
          ~RatGe(RoundZeroValues(roll_values[num_rolls], num_rolls - 1)[r],
                 roll_values[1][r])

\* The rounds filled so far are exactly those after idx, and each holds what the
\* conditional value computer and the selected resolver give for the table of
\* the round after it.
C9_State ==
    pc \in {"loop", "done"} =>
        /\ Len(roll_values) = num_rolls
        /\ Len(optimal_moves) = num_rolls - 1
        /\ roll_values[num_rolls] = ParseRollValues(arg_roll_values).parsed
        /\ idx \in -1..(num_rolls - 2)
        /\ pc = "done" => idx = -1
        /\ \A i \in 0..(num_rolls - 2) :
              IF i > idx
              THEN LET out == ComputeStrategyOneRoll(roll_values[i + 2])
                   IN  /\ roll_values[i + 1] = out.rv
                       /\ optimal_moves[i + 1] = out.om
              ELSE /\ roll_values[i + 1] = <<>>
                   /\ optimal_moves[i + 1] = <<>>

\* A step fills at most the round at idx and leaves every finished table alone.
C9_Step ==
    pc \in {"loop", "done"} =>
        /\ idx' \in {idx, idx - 1}
        /\ arg_roll_values' = arg_roll_values
        /\ \A i \in 0..(num_rolls - 1) :
              i > idx => roll_values'[i + 1] = roll_values[i + 1]
        /\ \A i \in 0..(num_rolls - 2) :
              i > idx => optimal_moves'[i + 1] = optimal_moves[i + 1]

\* C9: after validation there are num_rolls value tables and num_rolls - 1 move
\* tables and the last value table is the validated terminal table, which has no
\* move table; rounds are filled in the order num_rolls - 2, ..., 0, round i from
\* the finished table of round i + 1 by the conditional value computer and then
\* the selected resolver, and that step leaves the finished tables unchanged.
C9_BackwardInduction == [](C9_State) /\ [][C9_Step]_vars

C9_Witness ==
    /\ pc = "done" /\ num_rolls = 3
    /\ roll_values[1] # roll_values[2]
    /\ \E r \in FullRolls : roll_values[2][r] # roll_values[3][r]

\* C10: with keep_all_optimal the brute-force resolver's move list for every roll
\* r holds every maximizing sub-multiset of r exactly once and nothing else.
C10_BruteForceListsExactlyTheMaximizers ==
    (keep_all_optimal /\ bf_out.done) =>
        \A r \in FullRolls :
            /\ SeqToSet(bf_out.om[r]) = Maximizers(values_given_kept, r)
            /\ Len(bf_out.om[r]) = Cardinality(Maximizers(values_given_kept, r))

C10_Witness ==
    /\ keep_all_optimal /\ bf_out.done
    /\ num_dice = 2
    /\ \E r \in FullRolls : Len(bf_out.om[r]) = 3

=============================================================================
